---------------------------- MODULE Spec2Model ----------------------------
(***************************************************************************)
(* id-derive: derive macros for single-field wrapper ("newtype") structs.  *)
(*                                                                         *)
(* Two layers are modelled.                                                *)
(*   - Expansion (src/lib.rs, src/operation.rs): a derive macro receives a *)
(*     declaration, validates its shape and returns a token stream made of *)
(*     trait implementations and/or compile_error! invocations, or panics. *)
(*   - The generated code: the bodies of the emitted trait methods, run on *)
(*     a wrapper value over an unsigned inner type of Bits bits.           *)
(***************************************************************************)
EXTENDS Integers, Sequences, FiniteSets, TLC

\* ------------------------------------------------------------------ bounds
MaxFields == 3      \* unnamed field counts 0..MaxFields are explored
Bits == 8           \* width of the unsigned inner type of the wrapper
MaxWidth == 3       \* formatter widths 0..MaxWidth (0 = no width given)
MaxSteps == 3       \* statements run by the consumer's code on the wrapper

\* ------------------------------------------------------------ declarations
\* syn::DeriveInput reduced to what the generators look at: input.data
\* (Struct / Enum / Union), data.fields (Unnamed / Unit / Named) and
\* fields.unnamed.len().
StructUnnamed(n) == [data |-> "Struct", fields |-> "Unnamed", len |-> n]
StructUnit == [data |-> "Struct", fields |-> "Unit", len |-> 0]
StructNamed == [data |-> "Struct", fields |-> "Named", len |-> 1]
EnumDecl == [data |-> "Enum", fields |-> "None", len |-> 0]
UnionDecl == [data |-> "Union", fields |-> "None", len |-> 0]

DeriveInput ==
    {StructUnnamed(n) : n \in 0..MaxFields}
        \cup {StructUnit, StructNamed, EnumDecl, UnionDecl}

\* ------------------------------------------------------------------ tokens
\* One item of a token stream: `impl trait<arg> for target { .. }` or
\* `compile_error!(msg)` spanned at `span`.
Impl(trait, arg, target) ==
    [kind |-> "impl", trait |-> trait, arg |-> arg, target |-> target]
CompileError(msg, span) == [kind |-> "compile_error", msg |-> msg, span |-> span]

\* Result values of a generator: Ok(tokens), Err(syn::Error), or a panic.
Ok(tokens) == [tag |-> "Ok", tokens |-> tokens]
Err(msg, span) == [tag |-> "Err", msg |-> msg, span |-> span]
Panicked == [tag |-> "Panic"]

\* The literal of the compile_error! emitted for several unnamed fields.
OnlySingleField == <<"Only single-field structs supported at the moment">>

\* Mutant of implement_operation: the field-count test is off by one, so a
\* two-field tuple struct is generated from its first field.
implement_operation_off_by_one(fields, operation) ==
    IF fields > 2
    THEN [panic |-> FALSE, tokens |-> <<CompileError(OnlySingleField, "name")>>]
    ELSE IF fields = 0
         THEN [panic |-> TRUE, tokens |-> <<>>]
         ELSE [panic |-> FALSE, tokens |-> operation]

\* implement_operation: more than one unnamed field gives a compile_error!
\* token stream; otherwise the first field is unwrapped (a panic when there
\* is none) and the operation's tokens are returned.
implement_operation(fields, operation) ==
    IF fields > 1
    THEN [panic |-> FALSE, tokens |-> <<CompileError(OnlySingleField, "name")>>]
    ELSE IF fields = 0
         THEN [panic |-> TRUE, tokens |-> <<>>]
         ELSE [panic |-> FALSE, tokens |-> operation]

\* Mutant of single_derive: the Fields::Unit arm is missing and the catch-all
\* arm of the struct match hands every struct that has no named fields to the
\* operation.
single_derive_no_unit_arm(derive_name, input, operation) ==
    CASE input.data = "Struct" /\ input.fields \in {"Unnamed", "Unit"} ->
            Ok(operation)
      [] input.data = "Struct" /\ input.fields \notin {"Unnamed", "Unit"} ->
            Err(<<"Deriving from ", derive_name,
                  " by a struct with named fields is not yet implemented">>,
                "name")
      [] input.data = "Enum" ->
            Err(<<"Cannot derive ", derive_name, " for enum, expected struct.">>,
                "enum_token")
      [] input.data = "Union" ->
            Err(<<"Cannot derive ", derive_name, " for union, expected struct.">>,
                "union_token")

\* single_derive: the shape match. Messages are format! pieces:
\* literal, derive_name, literal.
single_derive(derive_name, input, operation) ==
    CASE input.data = "Struct" /\ input.fields = "Unnamed" ->
            LET r == implement_operation(input.len, operation)
            IN  IF r.panic THEN Panicked ELSE Ok(r.tokens)
      [] input.data = "Struct" /\ input.fields = "Unit" ->
            Err(<<"Unit struct cannot derive ", derive_name>>, "name")
      [] input.data = "Struct" /\ input.fields \notin {"Unnamed", "Unit"} ->
            Err(<<"Deriving from ", derive_name,
                  " by a struct with named fields is not yet implemented">>,
                "name")
      [] input.data = "Enum" ->
            Err(<<"Cannot derive ", derive_name, " for enum, expected struct.">>,
                "enum_token")
      [] input.data = "Union" ->
            Err(<<"Cannot derive ", derive_name, " for union, expected struct.">>,
                "union_token")

\* -------------------------------------------------- operation:: generators
operation_into_inner(derive_name, input) ==
    single_derive(derive_name, input, <<Impl("From", "name", "ty")>>)
operation_from_inner(derive_name, input) ==
    single_derive(derive_name, input, <<Impl("From", "ty", "name")>>)
operation_mul_self(derive_name, input) ==
    single_derive(derive_name, input, <<Impl("Mul", "Self", "name")>>)
operation_mul_inner(derive_name, input) ==
    single_derive(derive_name, input, <<Impl("Mul", "ty", "name")>>)
operation_mul_assign_self(derive_name, input) ==
    single_derive(derive_name, input, <<Impl("MulAssign", "Self", "name")>>)
operation_mul_assign_inner(derive_name, input) ==
    single_derive(derive_name, input, <<Impl("MulAssign", "ty", "name")>>)
operation_div_self(derive_name, input) ==
    single_derive(derive_name, input, <<Impl("Div", "Self", "name")>>)
operation_div_inner(derive_name, input) ==
    single_derive(derive_name, input, <<Impl("Div", "ty", "name")>>)
operation_div_assign_self(derive_name, input) ==
    single_derive(derive_name, input, <<Impl("DivAssign", "Self", "name")>>)
operation_div_assign_inner(derive_name, input) ==
    single_derive(derive_name, input, <<Impl("DivAssign", "ty", "name")>>)
operation_add_self(derive_name, input) ==
    single_derive(derive_name, input, <<Impl("Add", "Self", "name")>>)
operation_add_inner(derive_name, input) ==
    single_derive(derive_name, input, <<Impl("Add", "ty", "name")>>)
operation_add_assign_self(derive_name, input) ==
    single_derive(derive_name, input, <<Impl("AddAssign", "Self", "name")>>)
operation_add_assign_inner(derive_name, input) ==
    single_derive(derive_name, input, <<Impl("AddAssign", "ty", "name")>>)
operation_sub_self(derive_name, input) ==
    single_derive(derive_name, input, <<Impl("Sub", "Self", "name")>>)
operation_sub_inner(derive_name, input) ==
    single_derive(derive_name, input, <<Impl("Sub", "ty", "name")>>)
operation_sub_assign_self(derive_name, input) ==
    single_derive(derive_name, input, <<Impl("SubAssign", "Self", "name")>>)
\* Mutant of operation_sub_assign_inner: the body of sub_assign_self pasted
\* without the <#ty> parameter.
operation_sub_assign_inner_pasted(derive_name, input) ==
    single_derive(derive_name, input, <<Impl("SubAssign", "Self", "name")>>)
operation_sub_assign_inner(derive_name, input) ==
    single_derive(derive_name, input, <<Impl("SubAssign", "ty", "name")>>)
\* Mutant of operation_display: the generator matches the shape itself and
\* lets a unit struct through.
operation_display_own_match(derive_name, input) ==
    IF input.data = "Struct" /\ input.fields # "Named"
    THEN Ok(<<Impl("Display", "", "name"), Impl("Binary", "", "name")>>)
    ELSE Err(<<"Cannot derive ", derive_name, " for enum, expected struct.">>,
             "enum_token")
operation_display(derive_name, input) ==
    single_derive(derive_name, input,
                  <<Impl("Display", "", "name"), Impl("Binary", "", "name")>>)

\* ----------------------------------------------------------------- handle!
\* The output of a derive macro: a token stream, or nothing (the macro
\* panicked and the compiler reports the panic itself).
Tokens(tokens) == [tag |-> "Tokens", tokens |-> tokens]
Aborted == [tag |-> "Panic", tokens |-> <<>>]
to_compile_error(err) == <<CompileError(err.msg, err.span)>>

\* Mutant of handle_from: the Err arm records the compile error and goes on
\* to the next result instead of returning.
RECURSIVE handle_from_no_return(_, _, _)
handle_from_no_return(results, i, tokens) ==
    IF i > Len(results)
    THEN Tokens(tokens)
    ELSE CASE results[i].tag = "Ok" ->
                 handle_from_no_return(results, i + 1,
                                       tokens \o results[i].tokens)
           [] results[i].tag = "Err" ->
                 handle_from_no_return(results, i + 1,
                                       tokens \o to_compile_error(results[i]))
           [] results[i].tag = "Panic" -> Aborted

\* handle!($($s),*): the results are taken in call order; Ok extends the
\* accumulated stream, the first Err returns its compile error alone.
RECURSIVE handle_from(_, _, _)
handle_from(results, i, tokens) ==
    IF i > Len(results)
    THEN Tokens(tokens)
    ELSE CASE results[i].tag = "Ok" ->
                 handle_from(results, i + 1, tokens \o results[i].tokens)
           [] results[i].tag = "Err" -> Tokens(to_compile_error(results[i]))
           [] results[i].tag = "Panic" -> Aborted

handle(results) == handle_from(results, 1, <<>>)

\* handle!($s): the single-expression arm.
handle_one(s) ==
    CASE s.tag = "Ok" -> Tokens(s.tokens)
      [] s.tag = "Err" -> Tokens(to_compile_error(s))
      [] s.tag = "Panic" -> Aborted

\* ------------------------------------------------- lib.rs: the derive macros
display(input) == handle_one(operation_display("Display", input))
add_self(input) == handle_one(operation_add_self("Add", input))
add_inner(input) == handle_one(operation_add_inner("AddInner", input))
add_assign_self(input) == handle_one(operation_add_assign_self("Add", input))
add_assign_inner(input) ==
    handle_one(operation_add_assign_inner("AddInner", input))
sub_self(input) == handle_one(operation_sub_self("Sub", input))
sub_inner(input) == handle_one(operation_sub_inner("SubInner", input))
sub_assign_self(input) == handle_one(operation_sub_assign_self("Sub", input))
sub_assign_inner(input) ==
    handle_one(operation_sub_assign_inner("SubInner", input))
mul_self(input) == handle_one(operation_mul_self("Mul", input))
mul_inner(input) == handle_one(operation_mul_inner("MulInner", input))
mul_assign_self(input) ==
    handle_one(operation_mul_assign_self("MulAssign", input))
mul_assign_inner(input) ==
    handle_one(operation_mul_assign_inner("MulAssignInner", input))
div_self(input) == handle_one(operation_div_self("Div", input))
div_inner(input) == handle_one(operation_div_inner("DivInner", input))
div_assign_self(input) ==
    handle_one(operation_div_assign_self("DivAssign", input))
div_assign_inner(input) ==
    handle_one(operation_div_assign_inner("DivAssignInner", input))
from_inner(input) == handle_one(operation_from_inner("FromInner", input))
into_inner(input) == handle_one(operation_into_inner("IntoInner", input))

\* Mutant of convert: the from_inner call pasted for the second generator.
convert_pasted(input) ==
    LET from == operation_from_inner("Convert", input)
        into == operation_from_inner("Convert", input)
    IN  IF from.tag = "Panic" \/ into.tag = "Panic"
        THEN Aborted
        ELSE handle(<<from, into>>)

\* convert: both generators run before handle! looks at either result, so a
\* panic in either aborts the macro.
convert(input) ==
    LET from == operation_from_inner("Convert", input)
        into == operation_into_inner("Convert", input)
    IN  IF from.tag = "Panic" \/ into.tag = "Panic"
        THEN Aborted
        ELSE handle(<<from, into>>)

\* id: the nineteen generator calls, in the order written, all under the
\* derive name "Id".
id(input) ==
    LET derive_name == "Id"
    IN  handle(<<operation_from_inner(derive_name, input),
                 operation_into_inner(derive_name, input),
                 operation_add_self(derive_name, input),
                 operation_add_inner(derive_name, input),
                 operation_add_assign_self(derive_name, input),
                 operation_add_assign_inner(derive_name, input),
                 operation_sub_self(derive_name, input),
                 operation_sub_inner(derive_name, input),
                 operation_sub_assign_self(derive_name, input),
                 operation_sub_assign_inner(derive_name, input),
                 operation_mul_self(derive_name, input),
                 operation_mul_inner(derive_name, input),
                 operation_mul_assign_self(derive_name, input),
                 operation_mul_assign_inner(derive_name, input),
                 operation_div_self(derive_name, input),
                 operation_div_inner(derive_name, input),
                 operation_div_assign_self(derive_name, input),
                 operation_div_assign_inner(derive_name, input),
                 operation_display(derive_name, input)>>)

\* The names registered with #[proc_macro_derive(..)].
Directives ==
    {"Display", "Add", "AddInner", "AddAssign", "AddAssignInner",
     "Sub", "SubInner", "SubAssign", "SubAssignInner",
     "Mul", "MulInner", "MulAssign", "MulAssignInner",
     "Div", "DivInner", "DivAssign", "DivAssignInner",
     "FromInner", "IntoInner", "Convert", "Id"}

\* The compiler's dispatch from the name in the derive list to the macro.
proc_macro_derive(directive, input) ==
    CASE directive = "Display" -> display(input)
      [] directive = "Add" -> add_self(input)
      [] directive = "AddInner" -> add_inner(input)
      [] directive = "AddAssign" -> add_assign_self(input)
      [] directive = "AddAssignInner" -> add_assign_inner(input)
      [] directive = "Sub" -> sub_self(input)
      [] directive = "SubInner" -> sub_inner(input)
      [] directive = "SubAssign" -> sub_assign_self(input)
      [] directive = "SubAssignInner" -> sub_assign_inner(input)
      [] directive = "Mul" -> mul_self(input)
      [] directive = "MulInner" -> mul_inner(input)
      [] directive = "MulAssign" -> mul_assign_self(input)
      [] directive = "MulAssignInner" -> mul_assign_inner(input)
      [] directive = "Div" -> div_self(input)
      [] directive = "DivInner" -> div_inner(input)
      [] directive = "DivAssign" -> div_assign_self(input)
      [] directive = "DivAssignInner" -> div_assign_inner(input)
      [] directive = "FromInner" -> from_inner(input)
      [] directive = "IntoInner" -> into_inner(input)
      [] directive = "Convert" -> convert(input)
      [] directive = "Id" -> id(input)

\* =================================================== the generated code
\* The inner type: an unsigned integer of Bits bits. An arithmetic result is
\* [panic, val]. Overflow panics when the build has overflow checks (debug)
\* and wraps otherwise (release); division by zero always panics.
Modulus == 2 ^ Bits
MaxInner == Modulus - 1
Inner == 0..MaxInner

Value(v) == [panic |-> FALSE, val |-> v]
Panic == [panic |-> TRUE, val |-> 0]
Overflowing(exact, checks) ==
    IF exact \in Inner THEN Value(exact)
    ELSE IF checks THEN Panic
    ELSE Value(exact % Modulus)

inner_add(a, b, checks) == Overflowing(a + b, checks)
inner_sub(a, b, checks) == Overflowing(a - b, checks)
inner_mul(a, b, checks) == Overflowing(a * b, checks)
inner_div(a, b, checks) == IF b = 0 THEN Panic ELSE Value(a \div b)

\* A wrapper value is the tuple struct itself: w[1] is `w.0`.
Self(inner) == <<inner>>
\* `Self(e)` around an expression that may panic.
SelfOf(r) == IF r.panic THEN Panic ELSE Value(r.val)

\* impl From<ty> for name / impl From<name> for ty
from_ty(inner) == Self(inner)
\* Mutant of from_name: the conversion-out returns the inner type's default
\* instead of the field.
from_name_default(inner) == 0
from_name(inner) == inner[1]

\* Add / Sub / Mul / Div against Self and against the inner type:
\* `Self(self.0 op rhs.0)` and `Self(self.0 op rhs)`. The value carried is
\* the new wrapper's field.
add_Self(self, rhs, checks) == SelfOf(inner_add(self[1], rhs[1], checks))
add_ty(self, rhs, checks) == SelfOf(inner_add(self[1], rhs, checks))
sub_Self(self, rhs, checks) == SelfOf(inner_sub(self[1], rhs[1], checks))
sub_ty(self, rhs, checks) == SelfOf(inner_sub(self[1], rhs, checks))
mul_Self(self, rhs, checks) == SelfOf(inner_mul(self[1], rhs[1], checks))
\* Mutant of mul_ty: the body of add_inner pasted with the operator left as +.
mul_ty_pasted(self, rhs, checks) == SelfOf(inner_add(self[1], rhs, checks))
mul_ty(self, rhs, checks) == SelfOf(inner_mul(self[1], rhs, checks))
div_Self(self, rhs, checks) == SelfOf(inner_div(self[1], rhs[1], checks))
div_ty(self, rhs, checks) == SelfOf(inner_div(self[1], rhs, checks))

\* The mutating forms: `self.0 op= rhs.0` and `self.0 op= rhs`. The value
\* carried is the field of self after the statement.
add_assign_Self(self, rhs, checks) == inner_add(self[1], rhs[1], checks)
add_assign_ty(self, rhs, checks) == inner_add(self[1], rhs, checks)
\* Mutant of sub_assign_Self: `self.0 = rhs.0` for `self.0 -= rhs.0`.
sub_assign_Self_plain(self, rhs, checks) == Value(rhs[1])
sub_assign_Self(self, rhs, checks) == inner_sub(self[1], rhs[1], checks)
sub_assign_ty(self, rhs, checks) == inner_sub(self[1], rhs, checks)
mul_assign_Self(self, rhs, checks) == inner_mul(self[1], rhs[1], checks)
mul_assign_ty(self, rhs, checks) == inner_mul(self[1], rhs, checks)
div_assign_Self(self, rhs, checks) == inner_div(self[1], rhs[1], checks)
div_assign_ty(self, rhs, checks) == inner_div(self[1], rhs, checks)

\* ------------------------------------------------------------- formatting
\* Text is a sequence of one-character strings.
Digit(d) == <<"0", "1", "2", "3", "4", "5", "6", "7", "8", "9">>[d + 1]

RECURSIVE Digits(_, _)
Digits(n, base) ==
    IF n < base
    THEN <<Digit(n)>>
    ELSE Digits(n \div base, base) \o <<Digit(n % base)>>

\* Numbers are right-aligned in the width with spaces.
Pad(text, width) ==
    IF Len(text) >= width
    THEN text
    ELSE [i \in 1..(width - Len(text)) |-> " "] \o text

\* A formatter as seen by fmt: the alternate flag and the width (0 = none).
Formatter == [alternate : BOOLEAN, width : 0..MaxWidth]
Plain == [alternate |-> FALSE, width |-> 0]
Alternate == [alternate |-> TRUE, width |-> 0]

\* The inner type's own Display and Binary.
inner_Display_fmt(v, f) == Pad(Digits(v, 10), f.width)
inner_Binary_fmt(v, f) ==
    Pad((IF f.alternate THEN <<"0", "b">> ELSE <<>>) \o Digits(v, 2), f.width)

\* impl Display for name: write!(f, "{}", self.0)
Display_fmt(self, f) == inner_Display_fmt(self[1], Plain)
\* Mutant of Binary_fmt: the two branches of the alternate test swapped.
Binary_fmt_swapped(self, f) ==
    IF f.alternate
    THEN inner_Binary_fmt(self[1], Plain)
    ELSE inner_Binary_fmt(self[1], Alternate)
\* impl Binary for name: "{:#b}" when f.alternate(), "{:b}" otherwise
Binary_fmt(self, f) ==
    IF f.alternate
    THEN inner_Binary_fmt(self[1], Alternate)
    ELSE inner_Binary_fmt(self[1], Plain)

\* ================================================================== state
VARIABLES
    input,            \* the declaration handed to the derive macro
    directive,        \* the derive name that was expanded ("" before any)
    output,           \* what the macro returned: Tokens(..) or Aborted
    overflow_checks,  \* build profile of the consumer crate
    wrapper,          \* the wrapper value the consumer's code holds
    rhs,              \* the operand of the last statement
    stmt,             \* the last statement run on the wrapper
    result,           \* the value of the last statement
    f,                \* the formatter of the last statement, when a fmt call
    rendered,         \* the text the last statement wrote, when a fmt call
    steps,            \* statements run so far
    earlier           \* the macro invocation before this one, on the same input

vars == <<input, directive, output, overflow_checks, wrapper, rhs, stmt,
          result, f, rendered, steps, earlier>>

\* Operand values tried by the consumer's code.
Vals == {0, 1, 3, 12, MaxInner}
Ops == {"add", "sub", "mul", "div"}
RhsKinds == {"Self", "ty"}

NoOperand == [kind |-> "none", val |-> 0]
NoStmt == [op |-> "none", form |-> "", rhs |-> ""]
NoResult == [kind |-> "none", val |-> 0]
Panics == [kind |-> "panic", val |-> 0]
NotExpanded == [tag |-> "None", tokens |-> <<>>]
NoInvocation == [directive |-> "", output |-> NotExpanded]

Init ==
    /\ input \in DeriveInput
    /\ directive = ""
    /\ output = NotExpanded
    /\ overflow_checks \in BOOLEAN
    /\ wrapper = Self(0)
    /\ rhs = NoOperand
    /\ stmt = NoStmt
    /\ result = NoResult
    /\ f = Plain
    /\ rendered = <<>>
    /\ steps = 0
    /\ earlier = NoInvocation

\* The output holds `impl trait<arg> for target` and nothing stops the
\* consumer crate from compiling.
IsDiagnostic(t) == t.kind = "compile_error"
IsImpl(t) == t.kind = "impl"
Compiles ==
    /\ output.tag = "Tokens"
    /\ \A i \in 1..Len(output.tokens) : ~IsDiagnostic(output.tokens[i])
Implemented(trait, arg, target) ==
    /\ Compiles
    /\ \E i \in 1..Len(output.tokens) :
           output.tokens[i] = Impl(trait, arg, target)
\* The consumer's code runs on: it has not panicked and has statements left.
Running == result.kind # "panic" /\ steps < MaxSteps

\* Trait of an operator family in its value or mutating form.
TraitOf(op, form) ==
    CASE op = "add" -> IF form = "value" THEN "Add" ELSE "AddAssign"
      [] op = "sub" -> IF form = "value" THEN "Sub" ELSE "SubAssign"
      [] op = "mul" -> IF form = "value" THEN "Mul" ELSE "MulAssign"
      [] op = "div" -> IF form = "value" THEN "Div" ELSE "DivAssign"

\* Method resolution: the impl selected by operator and operand type.
value_method(op, kind, self, r, checks) ==
    CASE op = "add" /\ kind = "Self" -> add_Self(self, Self(r), checks)
      [] op = "add" /\ kind = "ty" -> add_ty(self, r, checks)
      [] op = "sub" /\ kind = "Self" -> sub_Self(self, Self(r), checks)
      [] op = "sub" /\ kind = "ty" -> sub_ty(self, r, checks)
      [] op = "mul" /\ kind = "Self" -> mul_Self(self, Self(r), checks)
      [] op = "mul" /\ kind = "ty" -> mul_ty(self, r, checks)
      [] op = "div" /\ kind = "Self" -> div_Self(self, Self(r), checks)
      [] op = "div" /\ kind = "ty" -> div_ty(self, r, checks)

assign_method(op, kind, self, r, checks) ==
    CASE op = "add" /\ kind = "Self" -> add_assign_Self(self, Self(r), checks)
      [] op = "add" /\ kind = "ty" -> add_assign_ty(self, r, checks)
      [] op = "sub" /\ kind = "Self" -> sub_assign_Self(self, Self(r), checks)
      [] op = "sub" /\ kind = "ty" -> sub_assign_ty(self, r, checks)
      [] op = "mul" /\ kind = "Self" -> mul_assign_Self(self, Self(r), checks)
      [] op = "mul" /\ kind = "ty" -> mul_assign_ty(self, r, checks)
      [] op = "div" /\ kind = "Self" -> div_assign_Self(self, Self(r), checks)
      [] op = "div" /\ kind = "ty" -> div_assign_ty(self, r, checks)

\* ---------------------------------------------------------------- actions
\* The compiler expands the derive named d on the declaration.
Expand(d) ==
    /\ directive = ""
    /\ directive' = d
    /\ output' = proc_macro_derive(d, input)
    /\ UNCHANGED <<input, overflow_checks, wrapper, rhs, stmt, result, f,
                   rendered, steps, earlier>>

\* `let mut x = W(v);`
New(v) ==
    /\ Compiles /\ Running
    /\ input = StructUnnamed(1)
    /\ wrapper' = Self(v)
    /\ rhs' = [kind |-> "ty", val |-> v]
    /\ stmt' = [op |-> "new", form |-> "", rhs |-> "ty"]
    /\ result' = [kind |-> "wrapper", val |-> v]
    /\ f' = Plain /\ rendered' = <<>>
    /\ steps' = steps + 1
    /\ UNCHANGED <<input, directive, output, overflow_checks, earlier>>

\* `x = W::from(v);`
ConvertIn(v) ==
    /\ Implemented("From", "ty", "name") /\ Running
    /\ wrapper' = from_ty(v)
    /\ rhs' = [kind |-> "ty", val |-> v]
    /\ stmt' = [op |-> "from", form |-> "", rhs |-> "ty"]
    /\ result' = [kind |-> "wrapper", val |-> wrapper'[1]]
    /\ f' = Plain /\ rendered' = <<>>
    /\ steps' = steps + 1
    /\ UNCHANGED <<input, directive, output, overflow_checks, earlier>>

\* `T::from(x)`
ConvertOut ==
    /\ Implemented("From", "name", "ty") /\ Running
    /\ rhs' = [kind |-> "Self", val |-> wrapper[1]]
    /\ stmt' = [op |-> "into", form |-> "", rhs |-> "Self"]
    /\ result' = [kind |-> "inner", val |-> from_name(wrapper)]
    /\ f' = Plain /\ rendered' = <<>>
    /\ steps' = steps + 1
    /\ UNCHANGED <<input, directive, output, overflow_checks, wrapper,
                   earlier>>

\* `x op W(r)` and `x op r`
Operate(op, kind, r) ==
    /\ Implemented(TraitOf(op, "value"), kind, "name") /\ Running
    /\ rhs' = [kind |-> kind, val |-> r]
    /\ stmt' = [op |-> op, form |-> "value", rhs |-> kind]
    /\ LET out == value_method(op, kind, wrapper, r, overflow_checks)
       IN  result' = IF out.panic THEN Panics
                     ELSE [kind |-> "wrapper", val |-> out.val]
    /\ f' = Plain /\ rendered' = <<>>
    /\ steps' = steps + 1
    /\ UNCHANGED <<input, directive, output, overflow_checks, wrapper,
                   earlier>>

\* `x op= W(r);` and `x op= r;`
OperateAssign(op, kind, r) ==
    /\ Implemented(TraitOf(op, "assign"), kind, "name") /\ Running
    /\ rhs' = [kind |-> kind, val |-> r]
    /\ stmt' = [op |-> op, form |-> "assign", rhs |-> kind]
    /\ LET out == assign_method(op, kind, wrapper, r, overflow_checks)
       IN  /\ result' = IF out.panic THEN Panics ELSE [kind |-> "unit", val |-> 0]
           /\ wrapper' = IF out.panic THEN wrapper ELSE Self(out.val)
    /\ f' = Plain /\ rendered' = <<>>
    /\ steps' = steps + 1
    /\ UNCHANGED <<input, directive, output, overflow_checks, earlier>>

\* `format!("{..}", x)` through the Display or the Binary trait
Format(trait, fmt) ==
    /\ Implemented(trait, "", "name") /\ Running
    /\ f' = fmt
    /\ rhs' = NoOperand
    /\ stmt' = [op |-> "fmt", form |-> trait, rhs |-> ""]
    /\ rendered' = IF trait = "Display" THEN Display_fmt(wrapper, fmt)
                   ELSE Binary_fmt(wrapper, fmt)
    /\ result' = [kind |-> "unit", val |-> 0]
    /\ steps' = steps + 1
    /\ UNCHANGED <<input, directive, output, overflow_checks, wrapper,
                   earlier>>

Next ==
    \/ \E d \in Directives : Expand(d)
    \/ \E v \in Vals : New(v)
    \/ \E v \in Vals : ConvertIn(v)
    \/ ConvertOut
    \/ \E op \in Ops, kind \in RhsKinds, r \in Vals : Operate(op, kind, r)
    \/ \E op \in Ops, kind \in RhsKinds, r \in Vals : OperateAssign(op, kind, r)
    \/ \E trait \in {"Display", "Binary"}, fmt \in Formatter : Format(trait, fmt)

Spec == Init /\ [][Next]_vars

\* The compiler goes on to another name of the derive list, or meets the same
\* derive again, on the same declaration, before any of the consumer's code
\* runs; the invocation before it is remembered.
ExpandAgain(d) ==
    /\ directive # ""
    /\ steps = 0
    /\ earlier' = [directive |-> directive, output |-> output]
    /\ directive' = d
    /\ output' = proc_macro_derive(d, input)
    /\ UNCHANGED <<input, overflow_checks, wrapper, rhs, stmt, result, f,
                   rendered, steps>>

\* Compilation alone: the macro invocations on one declaration.
NextExpansions ==
    \/ \E d \in Directives : Expand(d)
    \/ \E d \in Directives : ExpandAgain(d)

SpecExpansions == Init /\ [][NextExpansions]_vars

\* ================================================================= claims
Expanded == directive \in Directives
AllDiagnostics(o) ==
    /\ o.tag = "Tokens"
    /\ Len(o.tokens) >= 1
    /\ \A i \in 1..Len(o.tokens) : IsDiagnostic(o.tokens[i])
NoFragment(o) == \A i \in 1..Len(o.tokens) : ~IsImpl(o.tokens[i])
SomeFragment(o) == \E i \in 1..Len(o.tokens) : IsImpl(o.tokens[i])
NotUnnamed == {StructUnit, StructNamed, EnumDecl, UnionDecl}
MultiField == {StructUnnamed(n) : n \in 2..MaxFields}

\* C1: for every directive, a unit struct, a struct with named fields, an
\* enum or a union gets an error result (the output is a diagnostic) and no
\* trait-implementation fragment; a fragment is produced only for a struct
\* with unnamed fields.
C1_InvalidShapesRejected ==
    Expanded =>
        /\ input \in NotUnnamed =>
               /\ AllDiagnostics(output)
               /\ NoFragment(output)
        /\ SomeFragment(output) =>
               input.data = "Struct" /\ input.fields = "Unnamed"

C1_Witness ==
    /\ directive = "Id"
    /\ input = EnumDecl
    /\ output.tag = "Tokens"
    /\ Len(output.tokens) = 1

\* C2: for every directive, a tuple struct with more than one unnamed field
\* is rejected with the single-field diagnostic and nothing is generated for
\* any of its fields; the output (of the bundle directive too) holds only
\* that diagnostic, once per generator call, and no trait implementation.
C2_MultiFieldRejected ==
    (Expanded /\ input \in MultiField) =>
        /\ AllDiagnostics(output)
        /\ NoFragment(output)
        /\ \A i \in 1..Len(output.tokens) :
               output.tokens[i].msg =
                   <<"Only single-field structs supported at the moment">>
        /\ directive \notin {"Id", "Convert"} => Len(output.tokens) = 1

C2_Witness ==
    /\ directive = "Id"
    /\ input = StructUnnamed(2)
    /\ AllDiagnostics(output)

\* C3: a tuple struct with zero unnamed fields is a validation failure for
\* every directive: the expansion ends with a diagnostic, never aborts and
\* never emits a fragment.
C3_ZeroFieldsRejected ==
    (Expanded /\ input = StructUnnamed(0)) =>
        /\ output.tag # "Panic"
        /\ AllDiagnostics(output)
        /\ NoFragment(output)

C4_ShapeNamed(msg) ==
    CASE input = StructUnit -> msg[1] = "Unit struct cannot derive "
      [] input = EnumDecl -> msg[3] = " for enum, expected struct."
      [] input = UnionDecl -> msg[3] = " for union, expected struct."

\* C4: applied to a unit struct, an enum or a union, every directive's
\* diagnostic names that directive, as written in the derive list, and the
\* invalid shape.
C4_DiagnosticNamesDirective ==
    (Expanded /\ input \in {StructUnit, EnumDecl, UnionDecl}) =>
        /\ AllDiagnostics(output)
        /\ output.tokens[1].msg[2] = directive
        /\ C4_ShapeNamed(output.tokens[1].msg)

Bundles == {"Id", "Convert"}
AllFragments(o) ==
    /\ Len(o.tokens) >= 1
    /\ \A i \in 1..Len(o.tokens) : IsImpl(o.tokens[i])
OneDiagnostic(o) == Len(o.tokens) = 1 /\ IsDiagnostic(o.tokens[1])
Mixed(o) ==
    /\ SomeFragment(o)
    /\ \E i \in 1..Len(o.tokens) : IsDiagnostic(o.tokens[i])

\* C5 as stated: the output of a multi-fragment directive (Id, Convert) is
\* either the concatenation of all its fragments or exactly one diagnostic,
\* and never holds both a fragment and a diagnostic.
C5_AllOrOneDiagnostic ==
    (directive \in Bundles /\ output.tag = "Tokens") =>
        /\ AllFragments(output) \/ OneDiagnostic(output)
        /\ ~Mixed(output)

GeneratorCalls == IF directive = "Id" THEN 19 ELSE 2
FragmentCount == IF directive = "Id" THEN 20 ELSE 2

\* C5 amended: the output of Id and Convert never holds both a fragment and
\* a diagnostic, and it is one of: all the directive's fragments (one
\* unnamed field); exactly one diagnostic, that of the first generator in
\* call order (unit, named, enum, union); the single-field diagnostic once
\* per generator call and nothing else (several unnamed fields); or nothing
\* at all, the macro having panicked (no unnamed field).
C5_NoPartialSuccess ==
    (directive \in Bundles) =>
        /\ ~Mixed(output)
        /\ input = StructUnnamed(1) =>
               /\ output.tag = "Tokens"
               /\ AllFragments(output)
               /\ Len(output.tokens) = FragmentCount
        /\ input \in NotUnnamed =>
               /\ output.tag = "Tokens"
               /\ OneDiagnostic(output)
               /\ output.tokens =
                      to_compile_error(operation_from_inner(directive, input))
        /\ input \in MultiField =>
               /\ AllDiagnostics(output)
               /\ Len(output.tokens) = GeneratorCalls
        /\ input = StructUnnamed(0) => output = Aborted

C5_Witness ==
    /\ directive = "Id"
    /\ input = StructUnit
    /\ OneDiagnostic(output)

TokenSet(o) == {o.tokens[i] : i \in 1..Len(o.tokens)}
AllTraits ==
    {Impl("From", "ty", "name"), Impl("From", "name", "ty"),
     Impl("Display", "", "name"), Impl("Binary", "", "name")}
        \cup {Impl(TraitOf(op, form), kind, "name") :
                  op \in Ops, form \in {"value", "assign"}, kind \in RhsKinds}

\* C6: for a valid single-field wrapper, Id emits exactly the fragments the
\* other directives emit together, each once: conversion-in, conversion-out,
\* the sixteen arithmetic implementations, Display and Binary.
C6_IdIsUnion ==
    (directive = "Id" /\ input = StructUnnamed(1)) =>
        /\ output.tag = "Tokens"
        /\ TokenSet(output) =
               UNION {TokenSet(proc_macro_derive(d, input)) :
                          d \in Directives \ {"Id"}}
        /\ TokenSet(output) = AllTraits
        /\ Cardinality(TokenSet(output)) = Len(output.tokens)

C6_Witness ==
    /\ directive = "Id"
    /\ input = StructUnnamed(1)
    /\ Implemented("DivAssign", "ty", "name")
    /\ Implemented("Binary", "", "name")

\* C7: conversion-in of v is exactly W(v); conversion-out returns the inner
\* value of its argument; conversion-in followed by conversion-out returns
\* the original inner value, and conversion-out followed by conversion-in of
\* what it returned gives a wrapper with the same inner value.
C7_RoundTrip ==
    /\ [](stmt.op = "from" => (wrapper = <<rhs.val>> /\ result.val = rhs.val))
    /\ [](stmt.op = "into" => (result.kind = "inner" /\ <<result.val>> = wrapper))
    /\ [][(stmt.op = "from" /\ stmt'.op = "into") =>
              (result'.kind = "inner" /\ result'.val = rhs.val)]_vars
    /\ [][(stmt.op = "into" /\ stmt'.op = "from" /\ rhs'.val = result.val) =>
              wrapper' = wrapper]_vars

C7_Witness ==
    /\ stmt.op = "into"
    /\ steps = 2
    /\ directive = "Convert"
    /\ result = [kind |-> "inner", val |-> 12]

inner_op(op, a, b, checks) ==
    CASE op = "add" -> inner_add(a, b, checks)
      [] op = "sub" -> inner_sub(a, b, checks)
      [] op = "mul" -> inner_mul(a, b, checks)
      [] op = "div" -> inner_div(a, b, checks)

\* C8: for every operator and both operand kinds, W(a) op W(b) and W(a) op b
\* equal W(a op b), a op b being the inner type's own arithmetic: the wrapper
\* operation panics exactly when the inner one does (overflow under overflow
\* checks, division by zero) and otherwise wraps the inner result.
C8_ValueOps ==
    stmt.form = "value" =>
        LET e == inner_op(stmt.op, wrapper[1], rhs.val, overflow_checks)
        IN  IF e.panic
            THEN result.kind = "panic"
            ELSE result = [kind |-> "wrapper", val |-> e.val]

C8_Witness ==
    /\ stmt = [op |-> "mul", form |-> "value", rhs |-> "ty"]
    /\ wrapper = <<12>>
    /\ rhs.val = 12
    /\ result = [kind |-> "wrapper", val |-> 144]

\* C9: a mutating operator leaves the wrapper as the value-returning form
\* would, `x op= r` giving x the prior `x op r` (and panicking, with x as it
\* was, exactly when `x op r` does), and changes nothing else: the operand,
\* the declaration and the generated code stay as they are.
C9_AssignMatchesValue ==
    [][stmt'.form = "assign" =>
          LET v == value_method(stmt'.op, stmt'.rhs, wrapper, rhs'.val,
                                overflow_checks)
          IN  /\ IF v.panic
                 THEN result'.kind = "panic" /\ wrapper' = wrapper
                 ELSE result'.kind = "unit" /\ wrapper' = Self(v.val)
              /\ Len(wrapper') = 1
              /\ rhs'.kind = stmt'.rhs
              /\ UNCHANGED <<input, directive, output, overflow_checks>>]_vars

C9_Witness ==
    /\ stmt = [op |-> "sub", form |-> "assign", rhs |-> "Self"]
    /\ rhs.val = 3
    /\ wrapper = <<9>>
    /\ result.kind = "unit"

NoWidth(fmt) == fmt.width = 0

\* C10: with the format specs {}, {:b} and {:#b} the wrapper renders as its
\* inner value does: in decimal, in binary without prefix, and in binary
\* with the 0b prefix; 12 renders as "12", "1100" and "0b1100".
C10_DisplayMatchesInner ==
    (stmt.op = "fmt" /\ NoWidth(f)) =>
        /\ stmt.form = "Display" =>
               rendered = inner_Display_fmt(wrapper[1], f)
        /\ stmt.form = "Binary" =>
               rendered = inner_Binary_fmt(wrapper[1], f)
        /\ wrapper = <<12>> =>
               rendered =
                   CASE stmt.form = "Display" -> <<"1", "2">>
                     [] stmt.form = "Binary" /\ ~f.alternate ->
                            <<"1", "1", "0", "0">>
                     [] stmt.form = "Binary" /\ f.alternate ->
                            <<"0", "b", "1", "1", "0", "0">>

C10_Witness ==
    /\ stmt = [op |-> "fmt", form |-> "Binary", rhs |-> ""]
    /\ directive = "Id"
    /\ f = Alternate
    /\ wrapper = <<12>>
    /\ rendered = <<"0", "b", "1", "1", "0", "0">>

Accepted(o) == o.tag = "Tokens" /\ AllFragments(o)

\* C11: Convert is equivalent to IntoInner and FromInner applied together:
\* for a declaration both accept, Convert's output is exactly the
\* conversion-in fragment plus the conversion-out fragment and nothing else;
\* for a declaration they reject, Convert is rejected too and emits no
\* fragment.
C11_ConvertIsBoth ==
    directive = "Convert" =>
        LET from == proc_macro_derive("FromInner", input)
            into == proc_macro_derive("IntoInner", input)
        IN  /\ (Accepted(from) /\ Accepted(into)) =>
                   /\ Accepted(output)
                   /\ TokenSet(output) = TokenSet(from) \cup TokenSet(into)
                   /\ TokenSet(output) =
                          {Impl("From", "ty", "name"), Impl("From", "name", "ty")}
                   /\ Len(output.tokens) = 2
            /\ (~Accepted(from) \/ ~Accepted(into)) =>
                   /\ ~Accepted(output)
                   /\ NoFragment(output)
            /\ Accepted(output) => (Accepted(from) /\ Accepted(into))

C11_Witness ==
    /\ directive = "Convert"
    /\ input = StructUnnamed(1)
    /\ Accepted(output)
    /\ Len(output.tokens) = 2

\* What an invocation came to, the derive name left out: whether the macro
\* panicked, whether it emitted fragments only, and the diagnostics' wording
\* and location.
Reason(t) ==
    [span |-> t.span,
     text |-> IF Len(t.msg) <= 2 THEN <<t.msg[1]>> ELSE <<t.msg[1], t.msg[3]>>]
Outcome(o) ==
    [aborted |-> o.tag = "Panic",
     accepted |-> Accepted(o),
     reasons |-> {Reason(o.tokens[i]) :
                      i \in {j \in 1..Len(o.tokens) : IsDiagnostic(o.tokens[j])}}]

\* C12: shape validation does not depend on the directive nor on earlier
\* invocations: two invocations on the same declaration, whatever their
\* directives, come to the same kind of outcome (both accept, or both refuse
\* for the same reason), so Id accepts a declaration exactly when each other
\* directive does; and the same directive invoked again gives the same
\* output.
C12_ShapeValidationUniform ==
    earlier.directive # "" =>
        /\ Outcome(output) = Outcome(earlier.output)
        /\ Accepted(output) <=> Accepted(earlier.output)
        /\ Accepted(output) <=> input = StructUnnamed(1)
        /\ earlier.directive = directive => output = earlier.output

C12_Witness ==
    /\ earlier.directive = "Display"
    /\ directive = "Id"
    /\ input = StructUnnamed(1)
    /\ Accepted(earlier.output)
    /\ Accepted(output)
=============================================================================
